---- MODULE Spec2Model ----
(***************************************************************************)
(* The provider registry of package provider (provider/provider.go):       *)
(* the process-wide map `providers`, the two registration functions, the   *)
(* filtered enumeration Drivers and the three lookups For, STDFor, MVTFor. *)
(* Every call is one atomic step; `ret` holds what the last call was given *)
(* and what it returned, `registered` remembers which registrations        *)
(* returned nil.  The specifications with concurrent callers run the same  *)
(* functions statement by statement: `th` holds each thread's position and *)
(* locals, `mode` how the threads are scheduled.  `tile` is a tile_t and   *)
(* what its methods returned.                                              *)
(***************************************************************************)
EXTENDS Integers, Sequences, FiniteSets, TLC

VARIABLES providers, ret, registered, th, mode, tile

vars == <<providers, ret, registered, th, mode, tile>>

\* the value of a variable the specification at hand does not use
Unused == "unused"

(* ------------------------------ bounds --------------------------------- *)

\* how many distinct provider names callers use
MaxNames == 2
\* how many distinct config maps callers pass
MaxConfig == 2

NamePool == <<"postgis", "gpkg", "mvt_postgis", "test", "debug", "hana">>

Names == {NamePool[i] : i \in 1..MaxNames}

Configs == 1..MaxConfig

\* the non-nil initializer functions providers pass (0 is the nil func)
InitFuncs == {1, 2}

\* the non-nil cleanup hooks providers pass (0 is the nil hook)
CleanupFuncs == {1}

(* --------------------------- provider types ---------------------------- *)

TypeStd == 0

TypeMvt == 1

ProviderFilterNone == 0

ProviderFilterStd == 2

ProviderFilterMVT == 4

ProviderFilterAll == 6

\* a providerFilter value that is none of the named ones (default: branch)
ProviderFilterOther == 1

Filters ==
    {ProviderFilterNone, ProviderFilterStd, ProviderFilterMVT,
     ProviderFilterAll, ProviderFilterOther}

(* ------------------------- tilers and errors --------------------------- *)

\* the nil Tiler / nil MVTTiler interface value
NilTiler == [fn |-> 0, cfg |-> 0]

\* the tiler built by initializer fn from config cfg
MkTiler(fn, cfg) == [fn |-> fn, cfg |-> cfg]

MkErr(kind, name, type, known, src) ==
    [kind |-> kind, Name |-> name, Type |-> type, KnownProviders |-> known,
     src |-> src]

\* the nil error
NoErr == MkErr("nil", "", TypeStd, <<>>, <<0, 0>>)

ErrNilInitFunc == MkErr("ErrNilInitFunc", "", TypeStd, <<>>, <<0, 0>>)

\* fmt.Errorf("provider %v already exists", name)
ErrAlreadyExists(name) == MkErr("AlreadyExists", name, TypeStd, <<>>, <<0, 0>>)

ErrUnknownProvider(name, known) ==
    MkErr("ErrUnknownProvider", name, TypeStd, known, <<0, 0>>)

ErrInvalidProviderType(name, type, known) ==
    MkErr("ErrInvalidProviderType", name, type, known, <<0, 0>>)

ErrInvalidRegisteredProvider(name) ==
    MkErr("ErrInvalidRegisteredProvider", name, TypeStd, <<>>, <<0, 0>>)

\* the error value a provider's initializer fn makes for config cfg
InitErr(fn, cfg) == MkErr("InitError", "", TypeStd, <<>>, <<fn, cfg>>)

(***************************************************************************)
(* What an initializer returns.  Initializers are the providers' code; the *)
(* registry only calls them.  They are deterministic, and between them the *)
(* initializer/config pairs cover the four shapes a (Tiler, error) pair    *)
(* can take: tiler only, error only, both, neither.                        *)
(***************************************************************************)
InitShape(fn, cfg) == (2 * (fn - 1) + (cfg - 1)) % 4

InitCall(fn, cfg) ==
    CASE InitShape(fn, cfg) = 0 -> [tiler |-> MkTiler(fn, cfg), err |-> NoErr]
      [] InitShape(fn, cfg) = 1 -> [tiler |-> NilTiler, err |-> InitErr(fn, cfg)]
      [] InitShape(fn, cfg) = 2 -> [tiler |-> MkTiler(fn, cfg), err |-> InitErr(fn, cfg)]
      [] OTHER -> [tiler |-> NilTiler, err |-> NoErr]

(* ------------------------------ registry ------------------------------- *)

\* the elements of a list, and how often one occurs in it
Elems(l) == {l[i] : i \in 1..Len(l)}

Count(l, x) == Cardinality({i \in 1..Len(l) : l[i] = x})

\* struct pfns
pfns(init, mvtInit, cleanup) ==
    [init |-> init, mvtInit |-> mvtInit, cleanup |-> cleanup]

\* var providers map[string]pfns : nil until the first registration
NilMap == [isNil |-> TRUE, m |-> [n \in {} |-> pfns(0, 0, 0)]]

\* providers[name] = p
MapPut(mp, name, p) ==
    [isNil |-> FALSE,
     m |-> [n \in (DOMAIN mp.m) \cup {name} |-> IF n = name THEN p ELSE mp.m[n]]]

\* _, ok := providers[name]
Has(mp, name) == name \in DOMAIN mp.m

\* the record of one call: its arguments and what it returned
Call(op, name, init, cleanup, filter, cfg, std, mvt, err, list, calls) ==
    [op |-> op, name |-> name, init |-> init, cleanup |-> cleanup,
     filter |-> filter, cfg |-> cfg, std |-> std, mvt |-> mvt, err |-> err,
     list |-> list, calls |-> calls]

NoCall == Call("none", "", 0, 0, 0, 0, NilTiler, NilTiler, NoErr, <<>>, <<>>)

\* type tile_t struct
tile_t(z, x, y, buffer) == [Z |-> z, X |-> x, Y |-> y, buffer |-> buffer]

\* what a method of tile_t returned
ExtentReturned(op, ext, srid) == [op |-> op, ext |-> ext, srid |-> srid]

NoExtent == ExtentReturned("none", <<0, 0, 0, 0>>, 0)

\* no tile built yet
NoTile == [built |-> FALSE, t |-> tile_t(0, 0, 0, 0), srid |-> 0, last |-> NoExtent]

Init ==
    /\ providers = NilMap
    /\ ret = NoCall
    /\ registered = {}
    /\ th = Unused
    /\ mode = Unused
    /\ tile = NoTile

(* ---------------------------- registration ----------------------------- *)

\* if providers == nil { providers = make(map[string]pfns) }
MakeIfNil(mp) == IF mp.isNil THEN [mp EXCEPT !.isNil = FALSE] ELSE mp

\* Register without the `init == nil` test
RegisterNoNilCheck(name, init, cleanup) ==
    IF Has(MakeIfNil(providers), name)
    THEN /\ providers' = MakeIfNil(providers)
         /\ ret' = Call("Register", name, init, cleanup, 0, 0, NilTiler,
                        NilTiler, ErrAlreadyExists(name), <<>>, <<>>)
         /\ UNCHANGED registered
    ELSE /\ providers' = MapPut(MakeIfNil(providers), name, pfns(init, 0, cleanup))
         /\ ret' = Call("Register", name, init, cleanup, 0, 0, NilTiler,
                        NilTiler, NoErr, <<>>, <<>>)
         /\ registered' = registered \cup
                {[name |-> name, type |-> TypeStd, init |-> init, cleanup |-> cleanup]}

\* Register whose presence test only sees entries of its own flavor
RegisterDupSameFlavorOnly(name, init, cleanup) ==
    IF init = 0
    THEN /\ ret' = Call("Register", name, init, cleanup, 0, 0, NilTiler,
                        NilTiler, ErrNilInitFunc, <<>>, <<>>)
         /\ UNCHANGED <<providers, registered>>
    ELSE IF Has(MakeIfNil(providers), name) /\ providers.m[name].init # 0
    THEN /\ providers' = MakeIfNil(providers)
         /\ ret' = Call("Register", name, init, cleanup, 0, 0, NilTiler,
                        NilTiler, ErrAlreadyExists(name), <<>>, <<>>)
         /\ UNCHANGED registered
    ELSE /\ providers' = MapPut(MakeIfNil(providers), name, pfns(init, 0, cleanup))
         /\ ret' = Call("Register", name, init, cleanup, 0, 0, NilTiler,
                        NilTiler, NoErr, <<>>, <<>>)
         /\ registered' = registered \cup
                {[name |-> name, type |-> TypeStd, init |-> init, cleanup |-> cleanup]}

\* func Register(name string, init InitFunc, cleanup CleanupFunc) error
Register(name, init, cleanup) ==
    IF init = 0
    THEN /\ ret' = Call("Register", name, init, cleanup, 0, 0, NilTiler,
                        NilTiler, ErrNilInitFunc, <<>>, <<>>)
         /\ UNCHANGED <<providers, registered>>
    ELSE IF Has(MakeIfNil(providers), name)
    THEN /\ providers' = MakeIfNil(providers)
         /\ ret' = Call("Register", name, init, cleanup, 0, 0, NilTiler,
                        NilTiler, ErrAlreadyExists(name), <<>>, <<>>)
         /\ UNCHANGED registered
    ELSE /\ providers' = MapPut(MakeIfNil(providers), name, pfns(init, 0, cleanup))
         /\ ret' = Call("Register", name, init, cleanup, 0, 0, NilTiler,
                        NilTiler, NoErr, <<>>, <<>>)
         /\ registered' = registered \cup
                {[name |-> name, type |-> TypeStd, init |-> init, cleanup |-> cleanup]}

\* MVTRegister that makes the map before it tests `init == nil`
MVTRegisterMakeFirst(name, init, cleanup) ==
    IF init = 0
    THEN /\ providers' = MakeIfNil(providers)
         /\ ret' = Call("MVTRegister", name, init, cleanup, 0, 0, NilTiler,
                        NilTiler, ErrNilInitFunc, <<>>, <<>>)
         /\ UNCHANGED registered
    ELSE IF Has(MakeIfNil(providers), name)
    THEN /\ providers' = MakeIfNil(providers)
         /\ ret' = Call("MVTRegister", name, init, cleanup, 0, 0, NilTiler,
                        NilTiler, ErrAlreadyExists(name), <<>>, <<>>)
         /\ UNCHANGED registered
    ELSE /\ providers' = MapPut(MakeIfNil(providers), name, pfns(0, init, cleanup))
         /\ ret' = Call("MVTRegister", name, init, cleanup, 0, 0, NilTiler,
                        NilTiler, NoErr, <<>>, <<>>)
         /\ registered' = registered \cup
                {[name |-> name, type |-> TypeMvt, init |-> init, cleanup |-> cleanup]}

\* func MVTRegister(name string, init MVTInitFunc, cleanup CleanupFunc) error
MVTRegister(name, init, cleanup) ==
    IF init = 0
    THEN /\ ret' = Call("MVTRegister", name, init, cleanup, 0, 0, NilTiler,
                        NilTiler, ErrNilInitFunc, <<>>, <<>>)
         /\ UNCHANGED <<providers, registered>>
    ELSE IF Has(MakeIfNil(providers), name)
    THEN /\ providers' = MakeIfNil(providers)
         /\ ret' = Call("MVTRegister", name, init, cleanup, 0, 0, NilTiler,
                        NilTiler, ErrAlreadyExists(name), <<>>, <<>>)
         /\ UNCHANGED registered
    ELSE /\ providers' = MapPut(MakeIfNil(providers), name, pfns(0, init, cleanup))
         /\ ret' = Call("MVTRegister", name, init, cleanup, 0, 0, NilTiler,
                        NilTiler, NoErr, <<>>, <<>>)
         /\ registered' = registered \cup
                {[name |-> name, type |-> TypeMvt, init |-> init, cleanup |-> cleanup]}

(* ------------------------------ Drivers -------------------------------- *)

RECURSIVE Orders(_)
\* the orders in which `for k, v := range providers` may visit the keys of S
Orders(S) ==
    IF S = {}
    THEN {<<>>}
    ELSE UNION {{<<k>> \o o : o \in Orders(S \ {k})} : k \in S}

\* the switch with `case ProviderFilterAll:` falling into `default:`
KeepAllSkipped(v, FilterType) ==
    CASE FilterType = ProviderFilterMVT -> v.mvtInit # 0
      [] FilterType = ProviderFilterStd -> v.init # 0
      [] OTHER -> FALSE

\* the switch with the two flavor tests exchanged
KeepSwapped(v, FilterType) ==
    CASE FilterType = ProviderFilterAll -> TRUE
      [] FilterType = ProviderFilterMVT -> v.init # 0
      [] FilterType = ProviderFilterStd -> v.mvtInit # 0
      [] OTHER -> FALSE

\* the switch of Drivers: TRUE when the entry reaches l = append(l, k)
Keep(v, FilterType) ==
    CASE FilterType = ProviderFilterAll -> TRUE
      [] FilterType = ProviderFilterMVT -> v.mvtInit # 0
      [] FilterType = ProviderFilterStd -> v.init # 0
      [] OTHER -> FALSE

RECURSIVE DriversLoop(_, _, _, _, _)
\* the range loop of Drivers from the i-th visited key on, l the list so far
DriversLoop(mp, FilterType, order, i, l) ==
    IF i > Len(order)
    THEN l
    ELSE DriversLoop(mp, FilterType, order, i + 1,
                     IF Keep(mp.m[order[i]], FilterType)
                     THEN Append(l, order[i]) ELSE l)

\* func Drivers(FilterType providerFilter) (l []string), keys visited in `order`
DriversList(mp, FilterType, order) ==
    IF mp.isNil \/ FilterType = ProviderFilterNone
    THEN <<>>
    ELSE DriversLoop(mp, FilterType, order, 1, <<>>)

\* every list one call of Drivers(FilterType) may return
DriversResults(mp, FilterType) ==
    {DriversList(mp, FilterType, o) : o \in Orders(DOMAIN mp.m)}

Drivers(FilterType) ==
    /\ \E l \in DriversResults(providers, FilterType) :
          ret' = Call("Drivers", "", 0, 0, FilterType, 0, NilTiler, NilTiler,
                      NoErr, l, <<>>)
    /\ UNCHANGED <<providers, registered>>

(* ------------------------------ lookups -------------------------------- *)

\* one invocation of an initializer, as the providers' code sees it
Invoked(type, fn, cfg) == [type |-> type, fn |-> fn, cfg |-> cfg]

Lookup(std, mvt, err, calls) ==
    [std |-> std, mvt |-> mvt, err |-> err, calls |-> calls]

\* For that fills both fields of the union from the initializer's tiler
ForCallBoth(mp, name, config, driversList) ==
    IF mp.isNil
    THEN Lookup(NilTiler, NilTiler, ErrUnknownProvider("", driversList), <<>>)
    ELSE IF ~Has(mp, name)
    THEN Lookup(NilTiler, NilTiler, ErrUnknownProvider(name, driversList), <<>>)
    ELSE IF mp.m[name].init # 0
    THEN Lookup(InitCall(mp.m[name].init, config).tiler,
                InitCall(mp.m[name].init, config).tiler,
                InitCall(mp.m[name].init, config).err,
                <<Invoked(TypeStd, mp.m[name].init, config)>>)
    ELSE IF mp.m[name].mvtInit # 0
    THEN Lookup(InitCall(mp.m[name].mvtInit, config).tiler,
                InitCall(mp.m[name].mvtInit, config).tiler,
                InitCall(mp.m[name].mvtInit, config).err,
                <<Invoked(TypeMvt, mp.m[name].mvtInit, config)>>)
    ELSE Lookup(NilTiler, NilTiler, ErrInvalidRegisteredProvider(name), <<>>)

\* For that reports an initializer's failure as ErrInvalidRegisteredProvider
ForCallWrap(mp, name, config, driversList) ==
    IF mp.isNil
    THEN Lookup(NilTiler, NilTiler, ErrUnknownProvider("", driversList), <<>>)
    ELSE IF ~Has(mp, name)
    THEN Lookup(NilTiler, NilTiler, ErrUnknownProvider(name, driversList), <<>>)
    ELSE IF mp.m[name].init # 0
    THEN Lookup(InitCall(mp.m[name].init, config).tiler, NilTiler,
                IF InitCall(mp.m[name].init, config).err = NoErr
                THEN NoErr ELSE ErrInvalidRegisteredProvider(name),
                <<Invoked(TypeStd, mp.m[name].init, config)>>)
    ELSE IF mp.m[name].mvtInit # 0
    THEN Lookup(NilTiler, InitCall(mp.m[name].mvtInit, config).tiler,
                IF InitCall(mp.m[name].mvtInit, config).err = NoErr
                THEN NoErr ELSE ErrInvalidRegisteredProvider(name),
                <<Invoked(TypeMvt, mp.m[name].mvtInit, config)>>)
    ELSE Lookup(NilTiler, NilTiler, ErrInvalidRegisteredProvider(name), <<>>)

\* For without the `p.mvtInit != nil` branch
ForCallNoMvt(mp, name, config, driversList) ==
    IF mp.isNil
    THEN Lookup(NilTiler, NilTiler, ErrUnknownProvider("", driversList), <<>>)
    ELSE IF ~Has(mp, name)
    THEN Lookup(NilTiler, NilTiler, ErrUnknownProvider(name, driversList), <<>>)
    ELSE IF mp.m[name].init # 0
    THEN Lookup(InitCall(mp.m[name].init, config).tiler, NilTiler,
                InitCall(mp.m[name].init, config).err,
                <<Invoked(TypeStd, mp.m[name].init, config)>>)
    ELSE Lookup(NilTiler, NilTiler, ErrInvalidRegisteredProvider(name), <<>>)

\* func For(name string, config dict.Dicter) (val TilerUnion, err error)
ForCall(mp, name, config, driversList) ==
    IF mp.isNil
    THEN Lookup(NilTiler, NilTiler, ErrUnknownProvider("", driversList), <<>>)
    ELSE IF ~Has(mp, name)
    THEN Lookup(NilTiler, NilTiler, ErrUnknownProvider(name, driversList), <<>>)
    ELSE IF mp.m[name].init # 0
    THEN Lookup(InitCall(mp.m[name].init, config).tiler, NilTiler,
                InitCall(mp.m[name].init, config).err,
                <<Invoked(TypeStd, mp.m[name].init, config)>>)
    ELSE IF mp.m[name].mvtInit # 0
    THEN Lookup(NilTiler, InitCall(mp.m[name].mvtInit, config).tiler,
                InitCall(mp.m[name].mvtInit, config).err,
                <<Invoked(TypeMvt, mp.m[name].mvtInit, config)>>)
    ELSE Lookup(NilTiler, NilTiler, ErrInvalidRegisteredProvider(name), <<>>)

\* STDFor that drops the initializer's error when it also got a tiler
STDForCallSwallow(mp, name, config, l1, l2) ==
    IF mp.isNil
    THEN Lookup(NilTiler, NilTiler, ErrUnknownProvider("", l1), <<>>)
    ELSE IF ~Has(mp, name)
    THEN Lookup(NilTiler, NilTiler, ErrUnknownProvider(name, l1), <<>>)
    ELSE IF mp.m[name].init = 0
    THEN Lookup(NilTiler, NilTiler, ErrInvalidProviderType(name, TypeStd, l2), <<>>)
    ELSE Lookup(InitCall(mp.m[name].init, config).tiler, NilTiler,
                IF InitCall(mp.m[name].init, config).tiler # NilTiler
                THEN NoErr ELSE InitCall(mp.m[name].init, config).err,
                <<Invoked(TypeStd, mp.m[name].init, config)>>)

\* func STDFor(name string, config dict.Dicter) (Tiler, error);
\* l1 is what Drivers returns at the top, l2 what it returns in the type check
STDForCall(mp, name, config, l1, l2) ==
    IF mp.isNil
    THEN Lookup(NilTiler, NilTiler, ErrUnknownProvider("", l1), <<>>)
    ELSE IF ~Has(mp, name)
    THEN Lookup(NilTiler, NilTiler, ErrUnknownProvider(name, l1), <<>>)
    ELSE IF mp.m[name].init = 0
    THEN Lookup(NilTiler, NilTiler, ErrInvalidProviderType(name, TypeStd, l2), <<>>)
    ELSE Lookup(InitCall(mp.m[name].init, config).tiler, NilTiler,
                InitCall(mp.m[name].init, config).err,
                <<Invoked(TypeStd, mp.m[name].init, config)>>)

\* MVTFor whose type error was copied from STDFor with Type left at TypeStd
MVTForCallCopyPaste(mp, name, config, l) ==
    IF mp.isNil
    THEN Lookup(NilTiler, NilTiler, ErrUnknownProvider("", <<>>), <<>>)
    ELSE IF ~Has(mp, name)
    THEN Lookup(NilTiler, NilTiler, ErrUnknownProvider(name, l), <<>>)
    ELSE IF mp.m[name].mvtInit = 0
    THEN Lookup(NilTiler, NilTiler, ErrInvalidProviderType(name, TypeStd, l), <<>>)
    ELSE Lookup(NilTiler, InitCall(mp.m[name].mvtInit, config).tiler,
                InitCall(mp.m[name].mvtInit, config).err,
                <<Invoked(TypeMvt, mp.m[name].mvtInit, config)>>)

\* func MVTFor(name string, config dict.Dicter) (MVTTiler, error);
\* l is what Drivers returns in the branch that calls it
MVTForCall(mp, name, config, l) ==
    IF mp.isNil
    THEN Lookup(NilTiler, NilTiler, ErrUnknownProvider("", <<>>), <<>>)
    ELSE IF ~Has(mp, name)
    THEN Lookup(NilTiler, NilTiler, ErrUnknownProvider(name, l), <<>>)
    ELSE IF mp.m[name].mvtInit = 0
    THEN Lookup(NilTiler, NilTiler, ErrInvalidProviderType(name, TypeMvt, l), <<>>)
    ELSE Lookup(NilTiler, InitCall(mp.m[name].mvtInit, config).tiler,
                InitCall(mp.m[name].mvtInit, config).err,
                <<Invoked(TypeMvt, mp.m[name].mvtInit, config)>>)

Returned(op, name, config, r) ==
    Call(op, name, 0, 0, 0, config, r.std, r.mvt, r.err, <<>>, r.calls)

For(name, config) ==
    /\ ret' \in {Returned("For", name, config, ForCall(providers, name, config, l)) :
                    l \in DriversResults(providers, ProviderFilterAll)}
    /\ UNCHANGED <<providers, registered>>

\* STDFor that asks Drivers for every provider instead of the standard ones
STDForAllDrivers(name, config) ==
    /\ ret' \in {Returned("STDFor", name, config,
                           STDForCall(providers, name, config, ll[1], ll[2])) :
                    ll \in DriversResults(providers, ProviderFilterAll)
                           \X DriversResults(providers, ProviderFilterAll)}
    /\ UNCHANGED <<providers, registered>>

STDFor(name, config) ==
    /\ ret' \in {Returned("STDFor", name, config,
                           STDForCall(providers, name, config, ll[1], ll[2])) :
                    ll \in DriversResults(providers, ProviderFilterStd)
                           \X DriversResults(providers, ProviderFilterStd)}
    /\ UNCHANGED <<providers, registered>>

MVTFor(name, config) ==
    /\ ret' \in {Returned("MVTFor", name, config, MVTForCall(providers, name, config, l)) :
                    l \in DriversResults(providers, ProviderFilterMVT)}
    /\ UNCHANGED <<providers, registered>>

(* ------------------------------ Cleanup -------------------------------- *)

CleanupRun(invoked, panicked) == [invoked |-> invoked, panicked |-> panicked]

RECURSIVE CleanupLoop(_, _, _, _, _)
\* the range loop of Cleanup from the i-th visited entry on; invoked lists the
\* entries whose hook was called so far, the hooks of the entries in bad
\* panic, and a panic leaves the loop and the function
CleanupLoop(mp, order, bad, i, invoked) ==
    IF i > Len(order)
    THEN CleanupRun(invoked, FALSE)
    ELSE IF mp.m[order[i]].cleanup = 0
    THEN CleanupLoop(mp, order, bad, i + 1, invoked)
    ELSE IF order[i] \in bad
    THEN CleanupRun(Append(invoked, order[i]), TRUE)
    ELSE CleanupLoop(mp, order, bad, i + 1, Append(invoked, order[i]))

\* what leaves Cleanup when a hook panics: the panic of the last hook called
Panic(name) == MkErr("panic", name, TypeStd, <<>>, <<0, 0>>)

CleanupReturned(r) ==
    Call("Cleanup", "", 0, 0, 0, 0, NilTiler, NilTiler,
         IF r.panicked THEN Panic(r.invoked[Len(r.invoked)]) ELSE NoErr,
         r.invoked, <<>>)

\* Cleanup that forgets each entry once its hook has run
CleanupDeletes ==
    /\ \E order \in Orders(DOMAIN providers.m), bad \in SUBSET (DOMAIN providers.m) :
          /\ ret' = CleanupReturned(CleanupLoop(providers, order, bad, 1, <<>>))
          /\ providers' =
                [providers EXCEPT !.m =
                    [n \in (DOMAIN providers.m) \ Elems(ret'.list) |-> providers.m[n]]]
    /\ UNCHANGED registered

\* func Cleanup()
Cleanup ==
    /\ ret' \in {CleanupReturned(CleanupLoop(providers, order, bad, 1, <<>>)) :
                    order \in Orders(DOMAIN providers.m),
                    bad \in SUBSET (DOMAIN providers.m)}
    /\ UNCHANGED <<providers, registered>>

(* --------------------------- specification ----------------------------- *)

\* the sequential program has no threads and builds no tile
Sequential == UNCHANGED <<th, mode, tile>>

Next ==
    \/ \E name \in Names, init \in {0} \cup InitFuncs, cleanup \in {0} \cup CleanupFuncs :
          Register(name, init, cleanup) /\ Sequential
    \/ \E name \in Names, init \in {0} \cup InitFuncs, cleanup \in {0} \cup CleanupFuncs :
          MVTRegister(name, init, cleanup) /\ Sequential
    \/ \E FilterType \in Filters : Drivers(FilterType) /\ Sequential
    \/ \E name \in Names, config \in Configs : For(name, config) /\ Sequential
    \/ \E name \in Names, config \in Configs : STDFor(name, config) /\ Sequential
    \/ \E name \in Names, config \in Configs : MVTFor(name, config) /\ Sequential
    \/ Cleanup /\ Sequential

Spec == Init /\ [][Next]_vars

(* ------------------------------ properties ----------------------------- *)

Registrations == {"Register", "MVTRegister"}

Lookups == {"For", "STDFor", "MVTFor"}

\* name went through Register (type = TypeStd) or MVTRegister (TypeMvt) with a nil return
RegisteredAs(name, type) == \E r \in registered : r.name = name /\ r.type = type

RegisteredNames == {r.name : r \in registered}

\* C1: every entry of the registry has exactly one of init and mvtInit
\* non-nil, never both and never neither.
C1_ExactlyOneInitializer ==
    \A n \in DOMAIN providers.m :
        (providers.m[n].init # 0) # (providers.m[n].mvtInit # 0)

C1_Witness ==
    /\ \E n \in DOMAIN providers.m : providers.m[n].init # 0
    /\ \E n \in DOMAIN providers.m : providers.m[n].mvtInit # 0

\* C2 as stated: a registration call for a name that is already present
\* always returns the already-exists error and leaves the registry as it was.
C2_DuplicateAlways ==
    [][(ret'.op \in Registrations /\ Has(providers, ret'.name))
         => (ret'.err = ErrAlreadyExists(ret'.name) /\ providers' = providers)]_vars

\* C2 amended: a registration call for a name that is already present returns
\* the already-exists error when its initializer is non-nil and ErrNilInitFunc
\* when it is nil; either way the registry is left as it was.
C2_DuplicateUnlessNilInit ==
    [][(ret'.op \in Registrations /\ Has(providers, ret'.name))
         => /\ ret'.err = IF ret'.init = 0 THEN ErrNilInitFunc
                          ELSE ErrAlreadyExists(ret'.name)
            /\ providers' = providers]_vars

C2_Witness ==
    /\ ret.op = "Register"
    /\ ret.err = ErrAlreadyExists(ret.name)
    /\ Has(providers, ret.name)
    /\ providers.m[ret.name].mvtInit # 0
    /\ providers.m[ret.name].cleanup # ret.cleanup

\* C3: a registration call with a nil initializer returns ErrNilInitFunc and
\* leaves the registry as it was; a nil map stays nil.
C3_NilInitRejected ==
    [][(ret'.op \in Registrations /\ ret'.init = 0)
         => (ret'.err = ErrNilInitFunc /\ providers' = providers)]_vars

C3_Witness ==
    /\ ret.op = "MVTRegister"
    /\ ret.init = 0
    /\ ret.cleanup # 0
    /\ ret.err = ErrNilInitFunc
    /\ providers.isNil

\* C4: the list Drivers(ProviderFilterAll) returns holds every successfully
\* registered name exactly once and no other name.
C4_DriversAll ==
    (ret.op = "Drivers" /\ ret.filter = ProviderFilterAll)
        => /\ \A n \in RegisteredNames : Count(ret.list, n) = 1
           /\ Elems(ret.list) \subseteq RegisteredNames

C4_Witness ==
    /\ ret.op = "Drivers"
    /\ ret.filter = ProviderFilterAll
    /\ Len(ret.list) = 2
    /\ Cardinality(RegisteredNames) = 2

\* C5: Drivers(ProviderFilterStd) lists the names registered through Register
\* and none registered through MVTRegister, Drivers(ProviderFilterMVT) the
\* converse, and Drivers(ProviderFilterNone) is empty.
C5_DriversByFlavor ==
    ret.op = "Drivers"
        => /\ ret.filter = ProviderFilterStd
                => \A n \in RegisteredNames :
                       /\ RegisteredAs(n, TypeStd) => n \in Elems(ret.list)
                       /\ RegisteredAs(n, TypeMvt) => n \notin Elems(ret.list)
           /\ ret.filter = ProviderFilterMVT
                => \A n \in RegisteredNames :
                       /\ RegisteredAs(n, TypeMvt) => n \in Elems(ret.list)
                       /\ RegisteredAs(n, TypeStd) => n \notin Elems(ret.list)
           /\ ret.filter = ProviderFilterNone => ret.list = <<>>

C5_Witness ==
    /\ ret.op = "Drivers"
    /\ ret.filter = ProviderFilterStd
    /\ Len(ret.list) = 1
    /\ \E n \in RegisteredNames : RegisteredAs(n, TypeMvt)

\* the filter a lookup passes to Drivers for its known-names list
FilterOf(op) ==
    CASE op = "STDFor" -> ProviderFilterStd
      [] op = "MVTFor" -> ProviderFilterMVT
      [] OTHER -> ProviderFilterAll

\* C6: a lookup of a name that is not registered returns ErrUnknownProvider,
\* calls no initializer, and the error's KnownProviders is a list Drivers
\* returns for the lookup's filter in that registry state.
C6_UnknownProvider ==
    (ret.op \in Lookups /\ ret.name \notin RegisteredNames)
        => /\ ret.err.kind = "ErrUnknownProvider"
           /\ ret.calls = <<>>
           /\ ret.std = NilTiler
           /\ ret.mvt = NilTiler
           /\ ret.err.KnownProviders \in DriversResults(providers, FilterOf(ret.op))

C6_Witness ==
    /\ ret.op = "STDFor"
    /\ ret.name \notin RegisteredNames
    /\ ret.err.kind = "ErrUnknownProvider"
    /\ ret.err.KnownProviders # <<>>
    /\ ret.err.KnownProviders \in DriversResults(providers, ProviderFilterStd)

\* the initializer name was registered with
InitOf(name) == (CHOOSE r \in registered : r.name = name).init

\* C7: a typed lookup of a name registered under the other flavor returns
\* ErrInvalidProviderType with the requested Type and with KnownProviders a
\* Drivers list of the requested flavor, which lacks the name, and calls no
\* initializer; the typed lookup of the matching flavor calls the
\* initializer and returns its result.
C7_InvalidProviderType ==
    /\ (ret.op = "STDFor" /\ RegisteredAs(ret.name, TypeMvt))
          => /\ ret.err.kind = "ErrInvalidProviderType"
             /\ ret.err.Name = ret.name
             /\ ret.err.Type = TypeStd
             /\ ret.err.KnownProviders \in DriversResults(providers, ProviderFilterStd)
             /\ ret.name \notin Elems(ret.err.KnownProviders)
             /\ ret.calls = <<>>
             /\ ret.std = NilTiler
    /\ (ret.op = "MVTFor" /\ RegisteredAs(ret.name, TypeStd))
          => /\ ret.err.kind = "ErrInvalidProviderType"
             /\ ret.err.Name = ret.name
             /\ ret.err.Type = TypeMvt
             /\ ret.err.KnownProviders \in DriversResults(providers, ProviderFilterMVT)
             /\ ret.name \notin Elems(ret.err.KnownProviders)
             /\ ret.calls = <<>>
             /\ ret.mvt = NilTiler
    /\ (ret.op = "STDFor" /\ RegisteredAs(ret.name, TypeStd))
          => /\ ret.calls = <<Invoked(TypeStd, InitOf(ret.name), ret.cfg)>>
             /\ ret.std = InitCall(InitOf(ret.name), ret.cfg).tiler
             /\ ret.err = InitCall(InitOf(ret.name), ret.cfg).err
    /\ (ret.op = "MVTFor" /\ RegisteredAs(ret.name, TypeMvt))
          => /\ ret.calls = <<Invoked(TypeMvt, InitOf(ret.name), ret.cfg)>>
             /\ ret.mvt = InitCall(InitOf(ret.name), ret.cfg).tiler
             /\ ret.err = InitCall(InitOf(ret.name), ret.cfg).err

C7_Witness ==
    /\ ret.op = "MVTFor"
    /\ RegisteredAs(ret.name, TypeStd)
    /\ ret.err.kind = "ErrInvalidProviderType"
    /\ \E n \in RegisteredNames : RegisteredAs(n, TypeMvt)

C9_AtMostOneHandle ==
    ret.op = "For" => ~(ret.std # NilTiler /\ ret.mvt # NilTiler)

C9_Witness ==
    /\ ret.op = "For"
    /\ ret.mvt # NilTiler
    /\ ret.std = NilTiler

\* the lookup op serves entries of flavor type
Serves(op, type) ==
    \/ op = "For"
    \/ op = "STDFor" /\ type = TypeStd
    \/ op = "MVTFor" /\ type = TypeMvt

\* C10: a lookup that finds the name with the matching flavor calls the
\* entry's initializer exactly once, with the caller's config, and returns
\* the initializer's error value as it is, nil included.
C10_InitErrorPassedThrough ==
    \A type \in {TypeStd, TypeMvt} :
        (ret.op \in Lookups /\ Serves(ret.op, type) /\ RegisteredAs(ret.name, type))
            => /\ ret.calls = <<Invoked(type, InitOf(ret.name), ret.cfg)>>
               /\ ret.err = InitCall(InitOf(ret.name), ret.cfg).err

C10_Witness ==
    /\ ret.op = "For"
    /\ RegisteredAs(ret.name, TypeMvt)
    /\ ret.err.kind = "InitError"
    /\ ret.mvt = NilTiler

\* C11 as stated: one call of Cleanup calls the hook of every entry that has
\* one exactly once, calls nothing for an entry without one, and leaves the
\* registry as it was.
C11_CleanupRunsEveryHookOnce ==
    [][ret'.op = "Cleanup"
         => /\ providers' = providers
            /\ \A n \in DOMAIN providers.m :
                  Count(ret'.list, n) = IF providers.m[n].cleanup # 0 THEN 1 ELSE 0]_vars

\* C12 as stated: when the hook of one entry fails during Cleanup, the hooks
\* of all the other entries that have one are still run by that call.
C12_CleanupIsolatesFailure ==
    (ret.op = "Cleanup" /\ ret.err.kind = "panic")
        => \A n \in DOMAIN providers.m :
               providers.m[n].cleanup # 0 => n \in Elems(ret.list)

\* C15 as stated: when For returns a non-nil error, Std and Mvt of the
\* returned TilerUnion are both nil.
C15_ErrorMeansBothNil ==
    (ret.op = "For" /\ ret.err # NoErr)
        => (ret.std = NilTiler /\ ret.mvt = NilTiler)

\* C16 as stated: when For returns a TilerUnion with Std and Mvt both nil,
\* it returns a non-nil error.
C16_BothNilMeansError ==
    (ret.op = "For" /\ ret.std = NilTiler /\ ret.mvt = NilTiler)
        => ret.err # NoErr

\* C17: For on an entry with neither initializer returns
\* ErrInvalidRegisteredProvider naming the entry and calls nothing, and no
\* call of For on a registry built through the package's functions returns
\* that error.
C17_InvalidEntryUnreachable ==
    /\ ret.op = "For" => ret.err.kind # "ErrInvalidRegisteredProvider"
    /\ \A n \in Names, c \in Configs, k \in {0} \cup CleanupFuncs :
          ForCall(MapPut(providers, n, pfns(0, 0, k)), n, c, <<>>)
              = Lookup(NilTiler, NilTiler, ErrInvalidRegisteredProvider(n), <<>>)

C17_Witness ==
    /\ ret.op = "For"
    /\ Has(providers, ret.name)
    /\ providers.m[ret.name].init = 0
    /\ ret.calls # <<>>
    /\ ret.err.kind # "ErrInvalidRegisteredProvider"

\* C18: every registration that ever returned nil is still in the registry,
\* with the flavor, the initializer and the cleanup hook it was made with.
C18_RegistrationPermanent ==
    \A r \in registered :
        /\ Has(providers, r.name)
        /\ providers.m[r.name] =
              IF r.type = TypeStd THEN pfns(r.init, 0, r.cleanup)
              ELSE pfns(0, r.init, r.cleanup)

C18_Witness ==
    /\ ret.op = "Cleanup"
    /\ Len(ret.list) = 2
    /\ \E r \in registered : r.type = TypeMvt /\ r.cleanup # 0

\* C20 as stated: the ErrUnknownProvider a lookup returns carries the
\* requested name in Name, in every registry state.
C20_UnknownProviderNamesRequest ==
    (ret.op \in Lookups /\ ret.err.kind = "ErrUnknownProvider")
        => ret.err.Name = ret.name

(* -------------------------------- tiles -------------------------------- *)

\* the deepest zoom level of the tiles built
MaxZoom == 2

\* the buffers, in pixels, and the srid arguments callers pass to NewTile
Buffers == {0, 1, 64}

Srids == {3857, 4326}

\* the srid Extent and BufferedExtent report
WebMercator == 3857

\* 2^n
RECURSIVE Pow2(_)
Pow2(n) == IF n = 0 THEN 1 ELSE 2 * Pow2(n - 1)

(***************************************************************************)
(* The tile mathematics of package slippy and geom.Extent, in whole units: *)
(* one unit is one pixel of a 256-pixel tile at zoom MaxZoom, an extent is *)
(* <<minx, miny, maxx, maxy>>, and the world is centred on the origin.     *)
(***************************************************************************)
TileWidth(z) == 256 * Pow2(MaxZoom - z)

\* the west and the north edge of the tile, from its column and row
x0(t) == t.X * TileWidth(t.Z) - 128 * Pow2(MaxZoom)

y1(t) == 128 * Pow2(MaxZoom) - t.Y * TileWidth(t.Z)

\* slippy.Tile.Extent3857
Extent3857(t) ==
    <<x0(t), y1(t) - TileWidth(t.Z), x0(t) + TileWidth(t.Z), y1(t)>>

\* slippy.Pixels2Webs(zoom, pixels)
Pixels2Webs(z, pixels) == pixels * Pow2(MaxZoom - z)

\* geom.Extent.ExpandBy(s)
ExpandBy(ext, s) == <<ext[1] - s, ext[2] - s, ext[3] + s, ext[4] + s>>

\* func (tile *tile_t) Extent() (ext *geom.Extent, srid uint64)
Extent(t) == ExtentReturned("Extent", Extent3857(t), WebMercator)

\* BufferedExtent that converts the column index instead of the buffer
BufferedExtentOfColumn(t) ==
    ExtentReturned("BufferedExtent",
                   ExpandBy(Extent3857(t), Pixels2Webs(t.Z, t.X)), WebMercator)

\* func (tile *tile_t) BufferedExtent() (ext *geom.Extent, srid uint64)
BufferedExtent(t) ==
    ExtentReturned("BufferedExtent",
                   ExpandBy(Extent3857(t), Pixels2Webs(t.Z, t.buffer)), WebMercator)

\* func NewTile(z, x, y, buf, srid uint) Tile
NewTile(z, x, y, buf, srid) ==
    tile' = [built |-> TRUE, t |-> tile_t(z, x, y, buf), srid |-> srid, last |-> NoExtent]

CallExtent ==
    /\ tile.built
    /\ tile' = [tile EXCEPT !.last = Extent(tile.t)]

CallBufferedExtent ==
    /\ tile.built
    /\ tile' = [tile EXCEPT !.last = BufferedExtent(tile.t)]

NoRegistry == UNCHANGED <<providers, ret, registered, th, mode>>

TileNext ==
    \/ \E z \in 0..MaxZoom, buf \in Buffers, srid \in Srids :
          \E x, y \in 0..(Pow2(z) - 1) : NewTile(z, x, y, buf, srid) /\ NoRegistry
    \/ CallExtent /\ NoRegistry
    \/ CallBufferedExtent /\ NoRegistry

SpecTile == Init /\ [][TileNext]_vars

\* C14: for a tile built by NewTile with buffer 0, whatever srid was passed,
\* BufferedExtent returns the extent and the srid (3857) that Extent returns.
C14_ZeroBufferExtent ==
    (tile.built /\ tile.t.buffer = 0 /\ tile.last.op = "BufferedExtent")
        => /\ tile.last.ext = Extent(tile.t).ext
           /\ tile.last.srid = Extent(tile.t).srid
           /\ tile.last.srid = WebMercator

C14_Witness ==
    /\ tile.built
    /\ tile.t.buffer = 0
    /\ tile.t.Z = MaxZoom
    /\ tile.t.X > 0
    /\ tile.srid # WebMercator
    /\ tile.last.op = "BufferedExtent"

(* -------------------------- concurrent readers ------------------------- *)

Threads == {"t1", "t2"}

\* the names and configs the concurrent callers use
ThreadNames == {NamePool[1], NamePool[2]}

ThreadConfigs == {1, 2}

\* a thread inside a call: where it is, its arguments and what it has read
Thread(pc, op, name, cfg, filter, isNil, l, ok, p, res) ==
    [pc |-> pc, op |-> op, name |-> name, cfg |-> cfg, filter |-> filter,
     isNil |-> isNil, l |-> l, ok |-> ok, p |-> p, res |-> res]

NoLookup == Lookup(NilTiler, NilTiler, NoErr, <<>>)

IdleThread ==
    Thread("idle", "none", "", 0, 0, FALSE, <<>>, FALSE, pfns(0, 0, 0), NoLookup)

\* the registry the registrations of history h leave behind
RegistryOf(h) ==
    IF h = {}
    THEN NilMap
    ELSE [isNil |-> FALSE,
          m |-> [n \in {r.name : r \in h} |->
                    LET r == CHOOSE q \in h : q.name = n
                    IN IF r.type = TypeStd THEN pfns(r.init, 0, r.cleanup)
                       ELSE pfns(0, r.init, r.cleanup)]]

\* the histories of a completed start-up: at most one registration a name
Histories ==
    {h \in SUBSET [name : ThreadNames, type : {TypeStd, TypeMvt}, init : InitFuncs,
                   cleanup : {0}] :
        \A q, r \in h : q.name = r.name => q = r}

ReadersInit ==
    /\ registered \in Histories
    /\ providers = RegistryOf(registered)
    /\ ret = NoCall
    /\ th = [t \in Threads |-> IdleThread]
    /\ mode = Unused
    /\ tile = NoTile

\* the part of the map a thread has seen: whether it is nil, and the entry
\* `p, ok := providers[name]` gave it
View(c) ==
    [isNil |-> c.isNil,
     m |-> [n \in (IF c.ok THEN {c.name} ELSE {}) |-> c.p]]

\* the value a lookup returns from what the thread has read
Result(c, l2) ==
    CASE c.op = "For" -> ForCall(View(c), c.name, c.cfg, c.l)
      [] c.op = "STDFor" -> STDForCall(View(c), c.name, c.cfg, c.l, l2)
      [] c.op = "MVTFor" -> MVTForCall(View(c), c.name, c.cfg, l2)
      [] OTHER -> NoLookup

ReadersFrame == UNCHANGED <<providers, ret, registered, mode, tile>>

\* a thread enters For, STDFor, MVTFor or Drivers
Begin(t, op, name, cfg, filter) ==
    /\ th[t].pc = "idle"
    /\ th' = [th EXCEPT ![t] =
                Thread(IF op = "MVTFor" THEN "nil" ELSE "drivers", op, name, cfg,
                       filter, FALSE, <<>>, FALSE, pfns(0, 0, 0), NoLookup)]
    /\ ReadersFrame

\* Drivers(FilterType), or the Drivers call that opens For and STDFor
ReadDrivers(t) ==
    /\ th[t].pc = "drivers"
    /\ \E l \in DriversResults(providers, IF th[t].op = "Drivers" THEN th[t].filter
                                          ELSE FilterOf(th[t].op)) :
          th' = [th EXCEPT ![t].l = l,
                           ![t].pc = IF th[t].op = "Drivers" THEN "done" ELSE "nil"]
    /\ ReadersFrame

\* if providers == nil { return ... }
ReadNil(t) ==
    /\ th[t].pc = "nil"
    /\ th' = [th EXCEPT ![t] =
                IF providers.isNil
                THEN [th[t] EXCEPT !.isNil = TRUE, !.pc = "done",
                                   !.res = Result([th[t] EXCEPT !.isNil = TRUE], <<>>)]
                ELSE [th[t] EXCEPT !.pc = "get"]]
    /\ ReadersFrame

\* a map read that, like operator[] of a C++ map, inserts the missing key
ReadEntryInserts(t) ==
    /\ th[t].pc = "get"
    /\ th' = [th EXCEPT ![t].ok = Has(providers, th[t].name),
                        ![t].p = IF Has(providers, th[t].name)
                                 THEN providers.m[th[t].name] ELSE pfns(0, 0, 0),
                        ![t].pc = "finish"]
    /\ providers' = IF Has(providers, th[t].name) THEN providers
                    ELSE MapPut(providers, th[t].name, pfns(0, 0, 0))
    /\ UNCHANGED <<ret, registered, mode, tile>>

\* p, ok := providers[name]
ReadEntry(t) ==
    /\ th[t].pc = "get"
    /\ th' = [th EXCEPT ![t].ok = Has(providers, th[t].name),
                        ![t].p = IF Has(providers, th[t].name)
                                 THEN providers.m[th[t].name] ELSE pfns(0, 0, 0),
                        ![t].pc = "finish"]
    /\ ReadersFrame

\* the rest of the lookup: the tests on ok and p, the Drivers call of the
\* error branches of STDFor and MVTFor, the initializer call, the return
Finish(t) ==
    /\ th[t].pc = "finish"
    /\ th' \in {[th EXCEPT ![t].res = Result(th[t], l2), ![t].pc = "done"] :
                   l2 \in DriversResults(providers, FilterOf(th[t].op))}
    /\ ReadersFrame

\* the caller takes the result
Return(t) ==
    /\ th[t].pc = "done"
    /\ th' = [th EXCEPT ![t] = IdleThread]
    /\ ReadersFrame

ReadersNext ==
    \/ \E t \in Threads, op \in Lookups, name \in ThreadNames, cfg \in ThreadConfigs :
          Begin(t, op, name, cfg, 0)
    \/ \E t \in Threads, filter \in Filters : Begin(t, "Drivers", "", 0, filter)
    \/ \E t \in Threads : ReadDrivers(t)
    \/ \E t \in Threads : ReadNil(t)
    \/ \E t \in Threads : ReadEntry(t)
    \/ \E t \in Threads : Finish(t)
    \/ \E t \in Threads : Return(t)

SpecReaders == ReadersInit /\ [][ReadersNext]_vars

\* what the call of thread state c returns when it runs alone on registry mp
Alone(mp, c) ==
    CASE c.op = "For" ->
            {ForCall(mp, c.name, c.cfg, l) : l \in DriversResults(mp, ProviderFilterAll)}
      [] c.op = "STDFor" ->
            {STDForCall(mp, c.name, c.cfg, ll[1], ll[2]) :
                ll \in DriversResults(mp, ProviderFilterStd)
                       \X DriversResults(mp, ProviderFilterStd)}
      [] c.op = "MVTFor" ->
            {MVTForCall(mp, c.name, c.cfg, l) : l \in DriversResults(mp, ProviderFilterMVT)}
      [] OTHER -> {NoLookup}

\* C13: with registration completed, under every interleaving of For,
\* STDFor, MVTFor and Drivers calls of concurrent threads the registry stays
\* what registration left, and every call returns a result that the same
\* call returns when it runs alone on that registry.
C13_ReadersDoNotInterfere ==
    /\ providers = RegistryOf(registered)
    /\ \A t \in Threads :
          th[t].pc = "done"
              => /\ th[t].res \in Alone(RegistryOf(registered), th[t])
                 /\ th[t].op = "Drivers"
                       => th[t].l \in DriversResults(RegistryOf(registered), th[t].filter)

C13_Witness ==
    /\ th["t1"].pc = "done"
    /\ th["t1"].op = "For"
    /\ th["t1"].res.err.kind = "ErrUnknownProvider"
    /\ th["t1"].res.err.KnownProviders # <<>>
    /\ th["t2"].pc = "finish"
    /\ th["t2"].op = "For"
    /\ th["t2"].name = th["t1"].name

(* ------------------------ concurrent registration ---------------------- *)

\* how the registering threads are scheduled: one call at a time (serial) or
\* interleaved; the thread that last stored each name; how many calls
\* returned nil for each name; whether the runtime has stopped the process
Mode(serial, last, wins, crashed) ==
    [serial |-> serial, last |-> last, wins |-> wins, crashed |-> crashed]

RegInit ==
    /\ providers = NilMap
    /\ registered = {}
    /\ ret = NoCall
    /\ th = [t \in Threads |-> IdleThread]
    /\ mode \in {Mode(b, [n \in ThreadNames |-> "none"], [n \in ThreadNames |-> 0], FALSE) :
                    b \in BOOLEAN}
    /\ tile = NoTile

\* no other thread is inside a call
Alone1(t) == \A u \in Threads \ {t} : th[u].pc \in {"idle", "done"}

RegFrame == UNCHANGED <<ret, tile>>

\* a thread enters Register or MVTRegister: `if init == nil { return ErrNilInitFunc }`
RegBegin(t, op, name, init, cleanup) ==
    /\ ~mode.crashed
    /\ th[t].pc = "idle"
    /\ mode.serial => Alone1(t)
    /\ th' = [th EXCEPT ![t] =
                Thread(IF init = 0 THEN "done" ELSE "isnil", op, name, 0, 0, FALSE,
                       <<>>, FALSE,
                       IF op = "Register" THEN pfns(init, 0, cleanup)
                       ELSE pfns(0, init, cleanup),
                       Lookup(NilTiler, NilTiler,
                              IF init = 0 THEN ErrNilInitFunc ELSE NoErr, <<>>))]
    /\ UNCHANGED <<providers, registered, mode>>
    /\ RegFrame

\* if providers == nil
RegReadNil(t) ==
    /\ ~mode.crashed
    /\ th[t].pc = "isnil"
    /\ th' = [th EXCEPT ![t].isNil = providers.isNil,
                        ![t].pc = IF providers.isNil THEN "make" ELSE "check"]
    /\ UNCHANGED <<providers, registered, mode>>
    /\ RegFrame

\* providers = make(map[string]pfns)
RegMake(t) ==
    /\ ~mode.crashed
    /\ th[t].pc = "make"
    /\ providers' = [isNil |-> FALSE, m |-> NilMap.m]
    /\ th' = [th EXCEPT ![t].pc = "check"]
    /\ UNCHANGED <<registered, mode>>
    /\ RegFrame

\* a presence test that never finds the name
RegCheckBlind(t) ==
    /\ ~mode.crashed
    /\ th[t].pc = "check"
    /\ th' = [th EXCEPT ![t].ok = FALSE, ![t].pc = "insert"]
    /\ UNCHANGED <<providers, registered, mode>>
    /\ RegFrame

\* if _, ok := providers[name]; ok { return fmt.Errorf(...) }
RegCheck(t) ==
    /\ ~mode.crashed
    /\ th[t].pc = "check"
    /\ th' = [th EXCEPT ![t].ok = Has(providers, th[t].name),
                        ![t].pc = IF Has(providers, th[t].name) THEN "done" ELSE "insert",
                        ![t].res = IF Has(providers, th[t].name)
                                   THEN Lookup(NilTiler, NilTiler,
                                               ErrAlreadyExists(th[t].name), <<>>)
                                   ELSE th[t].res]
    /\ UNCHANGED <<providers, registered, mode>>
    /\ RegFrame

\* providers[name] = pfns{...}; return nil
RegInsert(t) ==
    /\ ~mode.crashed
    /\ th[t].pc = "insert"
    /\ providers' = MapPut(providers, th[t].name, th[t].p)
    /\ registered' = registered \cup
          {[name |-> th[t].name,
            type |-> IF th[t].op = "Register" THEN TypeStd ELSE TypeMvt,
            init |-> IF th[t].op = "Register" THEN th[t].p.init ELSE th[t].p.mvtInit,
            cleanup |-> th[t].p.cleanup]}
    /\ mode' = [mode EXCEPT !.last[th[t].name] = t,
                            !.wins[th[t].name] = mode.wins[th[t].name] + 1]
    /\ th' = [th EXCEPT ![t].pc = "done"]
    /\ RegFrame

\* the map write of one thread overlaps a map access of another: the Go
\* runtime may stop the process (fatal error: concurrent map writes)
RegCrash ==
    /\ ~mode.crashed
    /\ \E t, u \in Threads :
          t # u /\ th[t].pc = "insert" /\ th[u].pc \in {"check", "insert"}
    /\ mode' = [mode EXCEPT !.crashed = TRUE]
    /\ UNCHANGED <<providers, registered, th>>
    /\ RegFrame

\* with calls run one at a time, the caller takes the result and may call again
RegReturn(t) ==
    /\ ~mode.crashed
    /\ mode.serial
    /\ th[t].pc = "done"
    /\ th' = [th EXCEPT ![t] = IdleThread]
    /\ UNCHANGED <<providers, registered, mode>>
    /\ RegFrame

RegNext ==
    \/ \E t \in Threads, op \in Registrations, name \in ThreadNames,
          init \in {0} \cup InitFuncs, cleanup \in {0} \cup CleanupFuncs :
          RegBegin(t, op, name, init, cleanup)
    \/ \E t \in Threads : RegReadNil(t)
    \/ \E t \in Threads : RegMake(t)
    \/ \E t \in Threads : RegCheck(t)
    \/ \E t \in Threads : RegInsert(t)
    \/ \E t \in Threads : RegReturn(t)
    \/ RegCrash

SpecReg == RegInit /\ [][RegNext]_vars

\* thread t has returned nil from a registration of name n
Won(t, n) ==
    /\ th[t].pc = "done"
    /\ th[t].op \in Registrations
    /\ th[t].name = n
    /\ th[t].res.err = NoErr

\* C19: with registrations run one at a time at most one registration of a
\* name ever returns nil; with two interleaved registrations of one name that
\* both return nil, the registry holds one entry for the name, the one the
\* thread that stored last passed in.
C19_RegistrationRace ==
    \A n \in ThreadNames :
        /\ mode.serial => mode.wins[n] <= 1
        /\ (\A t \in Threads : Won(t, n))
              => /\ ~mode.serial
                 /\ mode.wins[n] = Cardinality(Threads)
                 /\ Has(providers, n)
                 /\ providers.m[n] = th[mode.last[n]].p

C19_Witness ==
    \E n \in ThreadNames :
        /\ ~mode.serial
        /\ Won("t1", n)
        /\ Won("t2", n)
        /\ th["t1"].p.init # 0
        /\ th["t2"].p.mvtInit # 0
        /\ th["t1"].p.cleanup # th["t2"].p.cleanup
        /\ providers.m[n] = th["t2"].p
        /\ DOMAIN providers.m = {n}

====
